---------------------------- MODULE Spec2Model ----------------------------
(* A model of litteraturkart: the corpus selector of utils.py             *)
(* (extract_unique_values, bool_filter, filtered_selection,               *)
(* corpus_parameters), the two network calls (get_imag_corpus,            *)
(* geo_locations) and the map display loop of app.py's main.              *)
(*                                                                        *)
(* A Python str is a sequence of one-character strings.  A cell of a      *)
(* pandas column is a record [kind, val]: kind "str" with the characters  *)
(* in val, kind "none" for a missing cell (None / NaN / <NA>), kind "int" *)
(* for a cell holding a number.                                           *)
EXTENDS Integers, Sequences, FiniteSets, TLC

VARIABLES
    pc,            \* where one run of main() stands
    corpus,        \* main: corpus, the metadata table (a sequence of rows)
    exception,     \* the exception that left main(), "" when none did
    chosen,        \* corpus_parameters: the widgets' values
    masks,         \* filtered_selection: doc_sel, cat_sel, ..., period
    offered,       \* corpus_parameters: subcorpus = filtered_selection(...)
    chosen_title,  \* corpus_parameters: the selectbox's value
    subcorpus,     \* main: subcorpus, the table corpus_parameters returned
    docid,         \* main: docid
    freq_lim,      \* main: freq_lim
    locations,     \* main: locations
    i,             \* main: the display loop's position in locations
    markers,       \* main: the markers added to the map m
    warnings,      \* main: the st.warning calls made
    message,       \* main: what was written to col3
    xpc,           \* extract_unique_values alone: how often it was applied
    data,          \* extract_unique_values: the column
    sep,           \* extract_unique_values: the delimiter
    result,        \* extract_unique_values(data, sep)
    again          \* extract_unique_values(result as a column, sep)

appVars == <<pc, corpus, exception, chosen, masks, offered, chosen_title,
             subcorpus, docid, freq_lim, locations, i, markers, warnings,
             message>>
extractVars == <<xpc, data, sep, result, again>>
vars == <<appVars, extractVars>>

--------------------------------------------------------------------------
(* Bounds of the model. *)
MaxRows == 2        \* rows of the metadata table
MaxChosen == 1      \* values picked in one multiselect
MaxLocs == 2        \* place-name rows answered for one publication
MaxCells == 2       \* cells of a column given to extract_unique_values
MidYear == 1850     \* a year inside the slider's range

(* The slider of corpus_parameters, and filtered_selection's defaults. *)
MinYear == 1814
MaxYear == 1905

--------------------------------------------------------------------------
(* Python str *)

\* The characters of the model in code point order (str comparison).
CharOrder == <<" ", "(", ")", ",", ".", "/", "[", "\\", "a", "b", "|">>

Ord(c) == CHOOSE n \in 1..Len(CharOrder) : CharOrder[n] = c

Whitespace == {" "}

Str(s) == [kind |-> "str", val |-> s]
Missing == [kind |-> "none", val |-> <<>>]
Number == [kind |-> "int", val |-> <<>>]

\* isinstance(item, str)
IsStr(cell) == cell.kind = "str"

\* s < t for two str
RECURSIVE StrLess(_, _)
StrLess(s, t) ==
    IF t = <<>> THEN FALSE
    ELSE IF s = <<>> THEN TRUE
    ELSE IF Head(s) = Head(t) THEN StrLess(Tail(s), Tail(t))
    ELSE Ord(Head(s)) < Ord(Head(t))

\* sorted(list(S)) for a set S of str
RECURSIVE sorted(_)
sorted(S) ==
    IF S = {} THEN <<>>
    ELSE LET m == CHOOSE x \in S : \A y \in S \ {x} : StrLess(x, y)
         IN <<m>> \o sorted(S \ {m})

\* str.split(sep) for a one-character sep: the units between the
\* delimiters, empty ones kept
RECURSIVE split(_, _)
split(s, d) ==
    IF \A k \in 1..Len(s) : s[k] # d THEN <<s>>
    ELSE LET k == CHOOSE j \in 1..Len(s) :
                      s[j] = d /\ \A h \in 1..(j - 1) : s[h] # d
         IN <<SubSeq(s, 1, k - 1)>> \o split(SubSeq(s, k + 1, Len(s)), d)

\* str.strip()
RECURSIVE strip(_)
strip(s) ==
    IF s = <<>> THEN s
    ELSE IF Head(s) \in Whitespace THEN strip(Tail(s))
    ELSE IF s[Len(s)] \in Whitespace THEN strip(SubSeq(s, 1, Len(s) - 1))
    ELSE s

\* d.join(parts)
RECURSIVE join(_, _)
join(d, parts) ==
    IF parts = <<>> THEN <<>>
    ELSE IF Len(parts) = 1 THEN parts[1]
    ELSE parts[1] \o d \o join(d, Tail(parts))

\* str.replace(old, new) for a one-character old
RECURSIVE replace(_, _, _)
replace(s, old, new) ==
    IF s = <<>> THEN <<>>
    ELSE (IF Head(s) = old THEN new ELSE <<Head(s)>>)
         \o replace(Tail(s), old, new)

Range(f) == {f[k] : k \in DOMAIN f}

--------------------------------------------------------------------------
(* utils.extract_unique_values *)

\* The set comprehension: the units of the str cells, the empty ones
\* dropped, each then stripped.
extract_units(column, d) ==
    {strip(unit) : unit \in
        {u \in UNION {Range(split(item.val, d)) :
                          item \in {c \in Range(column) : IsStr(c)}} :
            u # <<>>}}

extract_unique_values(column, d) == sorted(extract_units(column, d))

\* A list of str taken as a column, each element one cell.
AsColumn(list) == [k \in DOMAIN list |-> Str(list[k])]

--------------------------------------------------------------------------
(* extract_unique_values alone, on every column and delimiter of the      *)
(* bounds.                                                                *)

ExtractCells ==
    {Missing, Number,
     Str(<<>>), Str(<<"a">>), Str(<<" ", "a", " ">>),
     Str(<<"b", "/", "a">>), Str(<<"a", "/", " ">>),
     Str(<<"a", ",", "b">>), Str(<<"/">>)}

Delimiters == {"/", ","}

Columns(n) == UNION {[1..m -> ExtractCells] : m \in 0..n}

AppIdle ==
    /\ pc = "idle"
    /\ corpus = <<>>
    /\ exception = ""
    /\ chosen = <<>>
    /\ masks = <<>>
    /\ offered = <<>>
    /\ chosen_title = <<>>
    /\ subcorpus = <<>>
    /\ docid = 0
    /\ freq_lim = 0
    /\ locations = <<>>
    /\ i = 0
    /\ markers = <<>>
    /\ warnings = 0
    /\ message = ""

InitExtract ==
    /\ AppIdle
    /\ xpc = "given"
    /\ data \in Columns(MaxCells)
    /\ sep \in Delimiters
    /\ result = <<>>
    /\ again = <<>>

Extract ==
    /\ xpc = "given"
    /\ result' = extract_unique_values(data, sep)
    /\ xpc' = "once"
    /\ UNCHANGED <<data, sep, again, appVars>>

ExtractAgain ==
    /\ xpc = "once"
    /\ again' = extract_unique_values(AsColumn(result), sep)
    /\ xpc' = "twice"
    /\ UNCHANGED <<data, sep, result, appVars>>

NextExtract == Extract \/ ExtractAgain

SpecExtract == InitExtract /\ [][NextExtract]_vars

--------------------------------------------------------------------------
(* utils.format_title and the helpers it calls *)

Truthy(cell) == IsStr(cell) /\ cell.val # <<>>

format_single_author(author) ==
    LET names == split(author, ",")
    IN IF Len(names) > 1
       THEN strip(names[2]) \o <<" ">> \o strip(names[1])
       ELSE strip(names[1])

format_author(option) ==
    LET auths == split(option, "/")
    IN join(<<",", " ">>,
            [k \in DOMAIN auths |-> format_single_author(auths[k])])

\* 'AUTHOR : "TITLE" (YEAR)'; the year's digits are one element.
format_title(title, authors, year) ==
    LET author_name == IF Truthy(authors)
                       THEN format_author(authors.val) \o <<" ", ":", " ">>
                       ELSE <<>>
        publication_year == IF year # 0
                            THEN <<" ", "(", ToString(year), ")">>
                            ELSE <<>>
    IN author_name \o <<"\"">> \o title \o <<"\"">> \o publication_year

combine_title_info(row) == format_title(row.title, row.authors, row.year)

--------------------------------------------------------------------------
(* The pattern language of re, on the characters of CharOrder:            *)
(* a backslash makes the next character a literal, "." is any character,  *)
(* "|" separates alternatives, "[" opens a character set that nothing     *)
(* here can close.                                                        *)

\* re.compile(pat) raises re.error (unterminated character set)
re_error(pat) ==
    \E k \in 1..Len(pat) : pat[k] = "[" /\ (k = 1 \/ pat[k - 1] # "\\")

RECURSIVE atoms(_)
atoms(alt) ==
    IF alt = <<>> THEN <<>>
    ELSE IF Head(alt) = "\\" /\ Len(alt) > 1
         THEN <<[any |-> FALSE, ch |-> alt[2]]>>
              \o atoms(SubSeq(alt, 3, Len(alt)))
    ELSE IF Head(alt) = "."
         THEN <<[any |-> TRUE, ch |-> "."]>> \o atoms(Tail(alt))
    ELSE <<[any |-> FALSE, ch |-> Head(alt)]>> \o atoms(Tail(alt))

matches_at(as, s, p) ==
    /\ p + Len(as) - 1 <= Len(s)
    /\ \A k \in 1..Len(as) : as[k].any \/ as[k].ch = s[p + k - 1]

\* re.search(pat, s) is not None
re_search(pat, s) ==
    \E alt \in Range(split(pat, "|")) :
        \E p \in 1..(Len(s) + 1) : matches_at(atoms(alt), s, p)

\* Series.str.contains(pat, regex=True): NA where the cell is no str
str_contains(column, pat) ==
    [k \in DOMAIN column |->
        IF ~IsStr(column[k]) THEN "NA"
        ELSE IF re_search(pat, column[k].val) THEN "True" ELSE "False"]

--------------------------------------------------------------------------
(* utils.bool_filter and utils.filtered_selection *)

\* An Iterable argument: None, or a list.
None == [given |-> FALSE, vals |-> <<>>]
List(vals) == [given |-> TRUE, vals |-> vals]

\* bool(examples)
examples_exist(examples) == examples.given /\ examples.vals # <<>>

regpat(examples) ==
    replace(replace(IF examples_exist(examples)
                    THEN join(<<"|">>, examples.vals) ELSE <<>>,
                    "(", <<"\\", "(">>),
            ")", <<"\\", ")">>)

\* data.isin(examples if examples_exist else data)
isin(column, examples) ==
    [k \in DOMAIN column |->
        IF examples_exist(examples)
        THEN (IF column[k] \in Range(examples.vals) THEN "True" ELSE "False")
        ELSE "True"]

\* [raised, mask]: raised when the pattern does not compile
bool_filter(column, examples, regex) ==
    IF regex
    THEN IF re_error(regpat(examples))
         THEN [raised |-> TRUE, mask |-> <<>>]
         ELSE [raised |-> FALSE, mask |-> str_contains(column, regpat(examples))]
    ELSE [raised |-> FALSE, mask |-> isin(column, examples)]

Column(meta_df, col) == [k \in DOMAIN meta_df |-> meta_df[k][col]]

\* period with the lower bound left exclusive (from_year < year).
period_exclusive(meta_df, from_year, to_year) ==
    [k \in DOMAIN meta_df |->
        IF (from_year < meta_df[k].year) /\ (meta_df[k].year < to_year + 1)
        THEN "True" ELSE "False"]

\* (from_year - 1 < meta_df["year"]) & (meta_df["year"] < to_year + 1)
period(meta_df, from_year, to_year) ==
    [k \in DOMAIN meta_df |->
        IF (from_year - 1 < meta_df[k].year) /\ (meta_df[k].year < to_year + 1)
        THEN "True" ELSE "False"]

\* x & y on masks that may hold NA
and_kleene(x, y) ==
    IF x = "False" \/ y = "False" THEN "False"
    ELSE IF x = "NA" \/ y = "NA" THEN "NA"
    ELSE "True"

\* meta_df[mask]: the rows whose mask is True, NA taken as False
RECURSIVE boolean_index(_, _)
boolean_index(df, mask) ==
    IF df = <<>> THEN <<>>
    ELSE (IF Head(mask) = "True" THEN <<Head(df)>> ELSE <<>>)
         \o boolean_index(Tail(df), Tail(mask))

\* The locals of filtered_selection up to the first call that raises.
selection_masks(meta_df, docids, categories, titles, authors, from_year, to_year, languages) ==
    LET doc == bool_filter(Column(meta_df, "dhlabid"), docids, FALSE)
        cat == bool_filter(Column(meta_df, "category"), categories, TRUE)
        auth == bool_filter(Column(meta_df, "authors"), authors, TRUE)
        title == bool_filter(Column(meta_df, "title"), titles, FALSE)
        lang == bool_filter(Column(meta_df, "langs"), languages, TRUE)
    IN [raised |-> cat.raised \/ auth.raised \/ lang.raised,
        doc_sel |-> doc.mask,
        cat_sel |-> cat.mask,
        auth_sel |-> IF cat.raised THEN <<>> ELSE auth.mask,
        title_sel |-> IF cat.raised \/ auth.raised THEN <<>> ELSE title.mask,
        lang_sel |-> IF cat.raised \/ auth.raised THEN <<>> ELSE lang.mask,
        period |-> IF cat.raised \/ auth.raised \/ lang.raised THEN <<>>
                   ELSE period(meta_df, from_year, to_year)]

\* [raised, rows]: the selection, or the whole table when it is empty
filtered_selection(meta_df, docids, categories, titles, authors, from_year, to_year, languages) ==
    LET m == selection_masks(meta_df, docids, categories, titles, authors,
                             from_year, to_year, languages)
        all == [k \in DOMAIN meta_df |->
                   and_kleene(m.doc_sel[k],
                   and_kleene(m.cat_sel[k],
                   and_kleene(m.auth_sel[k],
                   and_kleene(m.title_sel[k],
                   and_kleene(m.lang_sel[k], m.period[k])))))]
        selection == boolean_index(meta_df, all)
    IN IF m.raised THEN [raised |-> TRUE, rows |-> <<>>]
       ELSE [raised |-> FALSE,
             rows |-> IF selection # <<>> THEN selection ELSE meta_df]

--------------------------------------------------------------------------
(* The remote metadata: the publications the API may answer with.         *)

Publication(id, title, authors, year, langs, category) ==
    [urn |-> <<"urn", ToString(id)>>, dhlabid |-> id, title |-> title,
     authors |-> authors, year |-> year, langs |-> langs,
     category |-> category]

Publications ==
    {Publication(1, <<"a">>, Str(<<"a">>), MidYear,
                 Str(<<"a">>), Str(<<"a">>)),
     Publication(2, <<"a">>, Str(<<"a">>), MidYear,
                 Str(<<"b">>), Str(<<"b">>)),
     Publication(3, <<"b">>, Missing, MidYear - 1,
                 Str(<<"a", "/", "b">>), Str(<<"a">>)),
     Publication(4, <<"b">>, Str(<<"[", "a">>), MidYear + 1,
                 Str(<<"b">>), Str(<<"b">>)),
     Publication(5, <<"a">>, Str(<<"b", ",", " ", "a", "/", "(", "a", ")">>),
                 MaxYear, Missing, Str(<<"a">>)),
     Publication(6, <<"b">>, Str(<<".">>), MinYear - 1,
                 Str(<<"a">>), Str(<<"b">>))}

\* The tables of at most n distinct publications, none empty.
Tables(n) ==
    UNION {{t \in [1..m -> Publications] :
               \A j, k \in 1..m : j # k => t[j] # t[k]} : m \in 1..n}

\* The answers of one HTTP request.
Answers == {"ok", "status", "unreachable"}

\* utils.get_imag_corpus on the answered table im: the columns kept, and
\* metatitle added.
get_imag_corpus(im) ==
    [k \in DOMAIN im |->
        [urn |-> im[k].urn, dhlabid |-> im[k].dhlabid, title |-> im[k].title,
         authors |-> im[k].authors, year |-> im[k].year,
         langs |-> im[k].langs, category |-> im[k].category,
         metatitle |-> combine_title_info(im[k])]]

--------------------------------------------------------------------------
(* One run of app.main *)

NoParams == <<>>

Init ==
    /\ pc = "start"
    /\ corpus = <<>>
    /\ exception = ""
    /\ chosen = NoParams
    /\ masks = NoParams
    /\ offered = <<>>
    /\ chosen_title = <<>>
    /\ subcorpus = <<>>
    /\ docid = 0
    /\ freq_lim = 0
    /\ locations = <<>>
    /\ i = 0
    /\ markers = <<>>
    /\ warnings = 0
    /\ message = ""
    /\ xpc = "idle"
    /\ data = <<>>
    /\ sep = "/"
    /\ result = <<>>
    /\ again = <<>>

\* main: corpus = load_corpus().  imag_corpus's requests.get stands in no
\* try; on a status other than 200 imag_corpus returns an empty DataFrame,
\* whose im.urn get_imag_corpus then reads.
LoadCorpus ==
    /\ pc = "start"
    /\ \E answer \in Answers :
        IF answer = "unreachable"
        THEN /\ exception' = "ConnectionError"
             /\ pc' = "raised"
             /\ UNCHANGED corpus
        ELSE IF answer = "status"
        THEN /\ exception' = "AttributeError"
             /\ pc' = "raised"
             /\ UNCHANGED corpus
        ELSE /\ \E im \in Tables(MaxRows) : corpus' = get_imag_corpus(im)
             /\ pc' = "loaded"
             /\ UNCHANGED exception
    /\ UNCHANGED <<chosen, masks, offered, chosen_title, subcorpus, docid,
                   freq_lim, locations, i, markers, warnings, message,
                   extractVars>>

\* What a multiselect over options may return: at most MaxChosen of them.
Selections(options) ==
    UNION {{s \in [1..n -> options] :
               \A j, k \in 1..n : j # k => s[j] # s[k]} : n \in 0..MaxChosen}

\* metadata.category.unique()
unique(column) == {cell.val : cell \in Range(column)}

SliderYears == {MinYear, MidYear, MaxYear}

\* metadata[metadata.metatitle == chosen_title]
rows_titled(metadata, title) ==
    boolean_index(metadata,
                  [k \in DOMAIN metadata |->
                      IF metadata[k].metatitle = title THEN "True" ELSE "False"])

\* main: subcorpus = utils.corpus_parameters(corpus, settings);
\*       docid = subcorpus.dhlabid.values[0]
CorpusParameters ==
    /\ pc = "loaded"
    /\ \E chosen_categories \in Selections(unique(Column(corpus, "category"))),
          chosen_authors \in
              Selections(Range(extract_unique_values(Column(corpus, "authors"), "/"))),
          chosen_language \in
              Selections(Range(extract_unique_values(Column(corpus, "langs"), "/"))),
          from_year \in SliderYears, to_year \in SliderYears :
        /\ from_year <= to_year
        /\ chosen' = [categories |-> chosen_categories,
                      authors |-> chosen_authors,
                      languages |-> chosen_language,
                      from_year |-> from_year, to_year |-> to_year]
        /\ masks' = selection_masks(corpus, None, List(chosen_categories),
                                    None, List(chosen_authors),
                                    from_year, to_year, List(chosen_language))
        /\ LET sel == filtered_selection(corpus, None, List(chosen_categories),
                                         None, List(chosen_authors),
                                         from_year, to_year,
                                         List(chosen_language))
           IN IF sel.raised
              THEN /\ exception' = "re.error"
                   /\ pc' = "raised"
                   /\ UNCHANGED <<offered, chosen_title, subcorpus, docid>>
              ELSE /\ offered' = sel.rows
                   /\ \E title \in {r.metatitle : r \in Range(sel.rows)} :
                        /\ chosen_title' = title
                        /\ subcorpus' = rows_titled(corpus, title)
                        /\ docid' = rows_titled(corpus, title)[1].dhlabid
                   /\ pc' = "selected"
                   /\ UNCHANGED exception
    /\ UNCHANGED <<corpus, freq_lim, locations, i, markers, warnings, message,
                   extractVars>>

\* number_input(min_value=1, value=1)
FrequencyLimits == {1, 2}

\* The place-name rows the geolocation API may answer with for docid: a
\* row names the publication asked for, or one the corpus table lacks.
PlaceNames(id) ==
    [token : {<<"a">>}, dhlabid : {id, 0}, frekv : FrequencyLimits]

LocationTables(id, n) == UNION {[1..m -> PlaceNames(id)] : m \in 0..n}

\* main: freq_lim, filnavn and the update_map button.  corpus_parameters
\* has returned: its locals are gone.
MapSettings ==
    /\ pc = "selected"
    /\ \E lim \in FrequencyLimits, update_map \in BOOLEAN :
        /\ freq_lim' = lim
        /\ pc' = IF update_map THEN "fetch" ELSE "done"
    /\ chosen' = NoParams
    /\ masks' = NoParams
    /\ offered' = <<>>
    /\ chosen_title' = <<>>
    /\ UNCHANGED <<corpus, exception, subcorpus, docid, locations, i, markers,
                   warnings, message, extractVars>>

\* utils.geo_locations: [raised, data].  requests.get stands before the
\* try; raise_for_status's HTTPError is a RequestException and is caught.
geo_locations(answer, rows) ==
    IF answer = "unreachable" THEN [raised |-> TRUE, data |-> <<>>]
    ELSE IF answer = "status" THEN [raised |-> FALSE, data |-> <<>>]
    ELSE [raised |-> FALSE, data |-> rows]

\* main: locations = fetch_locations(docid), and the branch on
\* locations.empty
FetchLocations ==
    /\ pc = "fetch"
    /\ \E answer \in Answers, rows \in LocationTables(docid, MaxLocs) :
        LET res == geo_locations(answer, rows)
        IN IF res.raised
           THEN /\ exception' = "ConnectionError"
                /\ pc' = "raised"
                /\ UNCHANGED <<locations, i, message>>
           ELSE /\ locations' = res.data
                /\ UNCHANGED exception
                /\ IF res.data = <<>>
                   THEN /\ message' = "Ingen stedsnavn"
                        /\ pc' = "done"
                        /\ UNCHANGED i
                   ELSE /\ message' = "Viser stedsnavn"
                        /\ pc' = "loop"
                        /\ i' = 1
    /\ UNCHANGED <<corpus, chosen, masks, offered, chosen_title, subcorpus,
                   docid, freq_lim, markers, warnings, extractVars>>

\* subcorpus.loc[subcorpus.dhlabid == row["dhlabid"], "urn"].values: an
\* array, empty when no record matches; nothing indexes it.
urn_values(table, id) ==
    Column(boolean_index(table,
                         [k \in DOMAIN table |->
                             IF table[k].dhlabid = id THEN "True" ELSE "False"]),
           "urn")

\* utils.create_map_pin: the marker, with the urn array formatted into
\* its popup's link
create_map_pin(row, urn) == [token |-> row.token, dhlabid |-> row.dhlabid,
                             urn |-> urn]

\* main: one pass of "for i, row in locations.iterrows()".  No statement
\* of the try block raises IndexError, so its handler is never entered.
DisplayRow ==
    /\ pc = "loop"
    /\ i <= Len(locations)
    /\ LET row == locations[i]
       IN IF row.frekv < freq_lim
          THEN UNCHANGED markers
          ELSE markers' = Append(markers,
                                 create_map_pin(row,
                                                urn_values(subcorpus, row.dhlabid)))
    /\ i' = i + 1
    /\ UNCHANGED <<pc, corpus, exception, chosen, masks, offered, chosen_title,
                   subcorpus, docid, freq_lim, locations, warnings, message,
                   extractVars>>

\* main: streamlit_folium.folium_static(m, ...) after the loop
ShowMap ==
    /\ pc = "loop"
    /\ i > Len(locations)
    /\ pc' = "done"
    /\ UNCHANGED <<corpus, exception, chosen, masks, offered, chosen_title,
                   subcorpus, docid, freq_lim, locations, i, markers, warnings,
                   message, extractVars>>

Next ==
    \/ LoadCorpus
    \/ CorpusParameters
    \/ MapSettings
    \/ FetchLocations
    \/ DisplayRow
    \/ ShowMap

Spec == Init /\ [][Next]_vars

--------------------------------------------------------------------------
(* The properties, as the specification words them. *)

\* value occurs in s as a run of consecutive characters
Appears(value, s) ==
    \E p \in 1..(Len(s) - Len(value) + 1) :
        SubSeq(s, p, p + Len(value) - 1) = value

\* A delimited field holds at least one of the requested values; an
\* empty request constrains nothing.
AnyRequested(cell, requested) ==
    \/ requested = <<>>
    \/ /\ IsStr(cell)
       /\ \E v \in Range(requested) : Appears(v, cell.val)

InYears(row, from_year, to_year) ==
    from_year <= row.year /\ row.year <= to_year

\* corpus_parameters has called filtered_selection
Filtered == pc = "selected" \/ (pc = "raised" /\ exception = "re.error")

\* The row satisfies every predicate of the chosen criteria.
Satisfies(row) ==
    /\ AnyRequested(row.category, chosen.categories)
    /\ AnyRequested(row.authors, chosen.authors)
    /\ AnyRequested(row.langs, chosen.languages)
    /\ InYears(row, chosen.from_year, chosen.to_year)

Satisfying ==
    boolean_index(corpus,
                  [k \in DOMAIN corpus |->
                      IF Satisfies(corpus[k]) THEN "True" ELSE "False"])

\* C1: on a non-empty table filtered_selection returns, for every
\* combination of criteria, a non-empty table: the rows that satisfy all
\* predicates, or the whole table when no row does.
C1_FallbackForAllCriteria ==
    Filtered =>
        /\ pc = "selected"
        /\ offered # <<>>
        /\ offered = IF Satisfying = <<>> THEN corpus ELSE Satisfying

NoCriteria ==
    /\ chosen.categories = <<>>
    /\ chosen.authors = <<>>
    /\ chosen.languages = <<>>
    /\ chosen.from_year = MinYear
    /\ chosen.to_year = MaxYear

\* C2: with every criterion absent or empty and the year bounds at their
\* defaults, filtered_selection returns the whole table, whatever the
\* records hold.
C2_NoCriteriaIsIdentity ==
    (Filtered /\ NoCriteria) => (pc = "selected" /\ offered = corpus)

\* C3: no failure of a network call (the source unreachable, a status
\* other than 2xx) lets an exception reach the caller.
C3_NetworkFailureNeverRaises ==
    exception \notin {"ConnectionError", "AttributeError"}

\* The rows the display loop has passed that reach the frequency limit
\* and name a publication the selected table lacks.
Unmatched ==
    {k \in 1..(i - 1) :
        /\ locations[k].frekv >= freq_lim
        /\ urn_values(subcorpus, locations[k].dhlabid) = <<>>}

\* C4: a place-name row whose publication has no record in the selected
\* table gets no marker and a warning is issued for it.
C4_UnmatchedRowSkippedWithWarning ==
    (pc \in {"loop", "done"}) =>
        /\ \A m \in Range(markers) : m.urn # <<>>
        /\ warnings = Cardinality(Unmatched)

\* The units of the str cells: split, trimmed, the empty ones discarded.
TrimmedUnits ==
    {strip(u) : u \in UNION {Range(split(c.val, sep)) :
                                 c \in {x \in Range(data) : IsStr(x)}}}
    \ {<<>>}

\* C5: extract_unique_values returns the sorted, duplicate-free list of
\* the trimmed, non-empty units of the str cells, and never an empty str.
C5_SortedTrimmedNonEmptyUnits ==
    (xpc # "given") =>
        /\ Range(result) = TrimmedUnits
        /\ \A k \in 1..(Len(result) - 1) : StrLess(result[k], result[k + 1])
        /\ \A k \in 1..Len(result) : result[k] # <<>>

\* C6: extract_unique_values applied to its own output returns that
\* output.
C6_ExtractIdempotent == (xpc = "twice") => (again = result)

\* C7: for authors and langs a row's mask is True exactly when one of the
\* requested values appears in its field, and True for every row when
\* nothing is requested.
C7_MultiValuedPredicate ==
    (pc = "selected") =>
        \A k \in DOMAIN corpus :
            /\ (masks.auth_sel[k] = "True")
                   <=> AnyRequested(corpus[k].authors, chosen.authors)
            /\ (masks.lang_sel[k] = "True")
                   <=> AnyRequested(corpus[k].langs, chosen.languages)

\* C8: the year predicate holds for a row exactly when
\* from_year <= year <= to_year, both bounds included.
C8_YearBoundsInclusive ==
    (pc = "selected") =>
        \A k \in DOMAIN corpus :
            (masks.period[k] = "True")
                <=> InYears(corpus[k], chosen.from_year, chosen.to_year)

\* C8's case: a row on each bound is in, a row one past the upper bound
\* is out.
C8_Witness ==
    /\ pc = "selected"
    /\ \E j, k \in DOMAIN corpus :
        /\ corpus[j].year = chosen.from_year
        /\ corpus[j].year = chosen.to_year
        /\ masks.period[j] = "True"
        /\ corpus[k].year = chosen.to_year + 1
        /\ masks.period[k] = "False"

\* C9: filtered_selection never raises, whatever values are requested.
C9_FilteringNeverRaises == exception # "re.error"

\* The mask of every criterion is True for the row.
Selected(k) ==
    /\ masks.doc_sel[k] = "True"
    /\ masks.cat_sel[k] = "True"
    /\ masks.auth_sel[k] = "True"
    /\ masks.title_sel[k] = "True"
    /\ masks.lang_sel[k] = "True"
    /\ masks.period[k] = "True"

\* C10: corpus_parameters returns one record, a record of the offered
\* selection, which satisfies the filters whenever some record does.
C10_HandsOverOneOfferedRecord ==
    (pc = "selected") =>
        /\ Len(subcorpus) = 1
        /\ subcorpus[1] \in Range(offered)
        /\ (\E k \in DOMAIN corpus : Selected(k)) =>
               (\A k \in DOMAIN corpus :
                    corpus[k].dhlabid = docid => Selected(k))

==========================================================================
